---- MODULE Spec2Model ----
(***************************************************************************)
(* Model of the memory store (MemoryDatabase, database.ts), its background *)
(* embedding worker (EmbeddingQueue, embeddingQueue.ts) and the retrieval  *)
(* entry point (retrieveTopK, embeddings.ts).                              *)
(*                                                                         *)
(* The program is single-threaded JavaScript: a step of the model is the   *)
(* code that runs between two suspension points (timer, file I/O, provider *)
(* call).  An await on a promise that is already settled is folded into    *)
(* the step that follows it.                                               *)
(***************************************************************************)
EXTENDS Integers, Sequences, FiniteSets, TLC

\* ---- bounds of the model ----
MaxRecords == 2
MaxLoops == 2
MaxK == 2
MaxDbs == 2
MaxClock == 2
MaxCallers == 2
MaxSimilarity == 2
MaxDim == 2

\* ---- values ----
NoEmbedding == 0
EmbeddingValues == {1}
\* a file: absent, or present with a content
Absent == <<>>
File(content) == <<content>>
Content(file) == file[1]
NoOne == "none"
NoCall == [op |-> NoOne, id |-> 0]
NoDatabase == 0
NoHandler == [op |-> NoOne, id |-> NoDatabase, at |-> "idle"]
NoReturn == [op |-> NoOne, id |-> NoDatabase, result |-> NoOne]
DbIds == 1 .. MaxDbs
Callers == 1 .. MaxCallers
OwnedDb == 1
Names == {"default", "work"}
Statuses == {"pending", "processing", "completed", "failed"}
LoopIds == 1..MaxLoops

VARIABLES
  phase,         \* "new": constructed, initialize() not completed; "up": initialized
  memories,      \* MemoryDatabase.state.memories (record id = position)
  disk,          \* content of the file at dbPath, or Absent
  tmp,           \* the file at dbPath.tmp: "absent", "partial" or "complete"
  writing,       \* the JSON text that save() hands to writeFile, while save() runs
  saveScheduled, \* MemoryDatabase.saveScheduled
  saver,         \* the caller whose save() holds the flag: NoOne, "init", "add", "loop", "api"
  savePc,        \* where that save() is: "wait", "write", "rename"
  isRunning,     \* EmbeddingQueue.isRunning
  isProcessing,  \* EmbeddingQueue.isProcessing
  pc,            \* position of each processLoop() invocation
  cur,           \* the record (const memory) each invocation is working on
  query,         \* retrieveTopK awaiting the query embedding: its candidate ids, else {}
  result,        \* the records the last retrieveTopK returned, as the caller reads them
  flushes,       \* number of save() invocations that hold the flag and have not returned
  readable,      \* whether readFile(dbPath) of an existing file yields parseable JSON
  waiter,        \* the observed store call that awaits its own save(): [op, id]
  settled,       \* the last observed store call that settled: [op, id, outcome]
  mgrPc,         \* DatabaseManager: "new", "idle", or the suspension its operation is at
  mgrArg,        \* DatabaseManager: the database id of the operation under way
  databases,     \* DatabaseManager.state.databases
  activeDatabase, \* DatabaseManager.state.activeDatabase
  loadedDatabases, \* DatabaseManager.loadedDatabases (its keys)
  registry,      \* content of the file databases.json, or Absent
  storeFiles,    \* ids of the databases whose backing file exists
  nextDbId,      \* number of database ids generated so far
  mgrReturned,   \* the last DatabaseManager call that settled: [op, id, result]
  registryWhole, \* whether databases.json, when present, holds a complete JSON text
  now,           \* Date.now()
  constructed,   \* per database id, the MemoryDatabase instances in use on its file
  getPc,         \* per caller of getDatabase(id), where its call stands
  getArg,        \* per caller of getDatabase(id), the id
  candidates,    \* retrieveTopK: embeddedMemories, each with its time and its
                 \* cosine similarity to the query, in hundredths
  kArg,          \* retrieveTopK: the argument k, 0 before the call
  topK,          \* retrieveTopK: the array returned
  vectors,       \* retrieveTopK: the query embedding, the embeddings of the
                 \* candidates and what the cosineSimilarity calls gave
  embeddingQueues, \* main process: per database id, whether embeddingQueues has
                 \* a queue for it and whether start() was called on that queue
  handler        \* main process: the handler under way, [op, id, at]

apiVars == <<waiter, settled>>
mgrVars == <<mgrPc, mgrArg, databases, activeDatabase, loadedDatabases, registry,
             storeFiles, nextDbId, mgrReturned, registryWhole, now, constructed>>
loadVars == <<getPc, getArg>>
rankVars == <<candidates, kArg, topK, vectors>>
appVars == <<embeddingQueues, handler>>
extVars == <<readable, apiVars, mgrVars, loadVars, rankVars, appVars>>

vars == <<phase, memories, disk, tmp, writing, saveScheduled, saver, savePc, isRunning,
          isProcessing, pc, cur, query, result, flushes, extVars>>

saveVars == <<writing, saveScheduled, saver, savePc, flushes>>
storeVars == <<phase, memories, disk, tmp, saveVars, isRunning, isProcessing, pc, cur,
               query, result>>
dbVars == <<phase, memories, disk, tmp, saveVars>>
queueVars == <<isRunning, isProcessing, pc, cur>>
retrVars == <<query, result>>

\* ---- MemoryDatabase ----

MemoryRecord == [embeddingStatus : Statuses, embedding : {NoEmbedding} \cup EmbeddingValues]

Ids(mems) == 1..Len(mems)

IdSeq(mems) == [i \in 1..Len(mems) |-> i]

getEmbeddedMemories(mems) ==
  SelectSeq(IdSeq(mems), LAMBDA i : mems[i].embeddingStatus = "completed"
                                    /\ mems[i].embedding # NoEmbedding)

\* variants of getPendingMemories with a fault: newest first; failed records too
getPendingMemoriesNewestFirst(mems) ==
  LET p == SelectSeq(IdSeq(mems), LAMBDA i : mems[i].embeddingStatus = "pending")
  IN [n \in 1..Len(p) |-> p[Len(p) + 1 - n]]

getPendingMemoriesWithFailed(mems) ==
  SelectSeq(IdSeq(mems), LAMBDA i : mems[i].embeddingStatus \in {"pending", "failed"})

getPendingMemories(mems) ==
  SelectSeq(IdSeq(mems), LAMBDA i : mems[i].embeddingStatus = "pending")

\* getStats()
Count(mems, status) == Cardinality({i \in Ids(mems) : mems[i].embeddingStatus = status})

\* variant of getStats with a fault: pending counts the processing records
getStatsPendingCountsProcessing(mems) ==
  [total |-> Len(mems),
   embedded |-> Count(mems, "completed"),
   pending |-> Count(mems, "processing"),
   processing |-> Count(mems, "processing"),
   failed |-> Count(mems, "failed")]

getStats(mems) ==
  [total |-> Len(mems),
   embedded |-> Count(mems, "completed"),
   pending |-> Count(mems, "pending"),
   processing |-> Count(mems, "processing"),
   failed |-> Count(mems, "failed")]

\* the record mutations of markEmbeddingProcessing / updateEmbedding /
\* markEmbeddingFailed, before their save()
markEmbeddingProcessing(mems, id) ==
  IF id \in Ids(mems) THEN [mems EXCEPT ![id].embeddingStatus = "processing"] ELSE mems

\* variant of updateEmbedding with a fault: the status is not set
updateEmbeddingKeepsStatus(mems, id, e) ==
  [mems EXCEPT ![id].embedding = e]

updateEmbedding(mems, id, e) ==
  [mems EXCEPT ![id].embedding = e, ![id].embeddingStatus = "completed"]

markEmbeddingFailed(mems, id) ==
  IF id \in Ids(mems) THEN [mems EXCEPT ![id].embeddingStatus = "failed"] ELSE mems

\* save(): returns at once when a save is scheduled, else takes the flag and
\* waits for the debounce timer
\* (variant with a fault: the test of saveScheduled is missing)
saveWithoutGuard(caller) ==
  /\ saveScheduled' = TRUE
  /\ flushes' = flushes + 1
  /\ UNCHANGED writing
  /\ saver' = caller
  /\ savePc' = "wait"

save(caller) ==
  /\ saveScheduled' = TRUE
  /\ flushes' = IF saveScheduled THEN flushes ELSE flushes + 1
  /\ UNCHANGED writing
  /\ saver' = IF saveScheduled THEN saver ELSE caller
  /\ savePc' = IF saveScheduled THEN savePc ELSE "wait"

saveReleased ==
  /\ saveScheduled' = FALSE
  /\ flushes' = IF flushes > 0 THEN flushes - 1 ELSE 0
  /\ writing' = <<>>
  /\ saver' = NoOne
  /\ savePc' = NoOne

Constructed ==
  /\ phase = "new"
  /\ memories = <<>>
  /\ disk = Absent
  /\ tmp = "absent"
  /\ writing = <<>>
  /\ saveScheduled = FALSE
  /\ saver = NoOne
  /\ savePc = NoOne
  /\ isRunning = FALSE
  /\ isProcessing = FALSE
  /\ pc = [l \in LoopIds |-> "idle"]
  /\ cur = [l \in LoopIds |-> 0]
  /\ query = {}
  /\ result = {}
  /\ flushes = 0
  /\ readable = TRUE
  /\ waiter = NoCall
  /\ settled = [op |-> NoOne, id |-> 0, outcome |-> NoOne]
  /\ mgrPc = "new"
  /\ mgrArg = 0
  /\ databases = <<>>
  /\ activeDatabase = NoDatabase
  /\ loadedDatabases = {}
  /\ registry = Absent
  /\ storeFiles = {}
  /\ nextDbId = 0
  /\ mgrReturned = NoReturn
  /\ registryWhole = TRUE
  /\ constructed = [id \in DbIds |-> 0]
  /\ getPc = [c \in Callers |-> "idle"]
  /\ getArg = [c \in Callers |-> NoDatabase]
  /\ kArg = 0
  /\ topK = <<>>
  /\ embeddingQueues = [id \in DbIds |-> "none"]
  /\ handler = NoHandler

\* no similarity computed yet
NoVectors(q, es) ==
  [queryEmbedding |-> q, embeddings |-> es, called |-> FALSE, threw |-> FALSE,
   similarities |-> <<>>]

Init ==
  /\ Constructed
  /\ now = 0
  /\ candidates = <<>>
  /\ vectors = NoVectors(<<>>, <<>>)

\* initialize(): readFile or JSON.parse throws
readFileThrows == disk = Absent \/ ~readable

\* initialize(): the test error.code === 'ENOENT' of the catch clause
\* (variant with a fault: every error is taken for a missing file)
isENOENTAlways == TRUE

isENOENT == disk = Absent

\* initialize(), file present: this.state = JSON.parse(data)
InitializeLoad ==
  /\ phase = "new"
  /\ ~saveScheduled
  /\ ~readFileThrows
  /\ memories' = Content(disk)
  /\ phase' = "up"
  /\ UNCHANGED <<disk, tmp, saveVars>>
  /\ UNCHANGED <<queueVars, retrVars, extVars>>

\* initialize(), ENOENT: await this.save()
InitializeCreate ==
  /\ phase = "new"
  /\ ~saveScheduled
  /\ readFileThrows /\ isENOENT
  /\ save("init")
  /\ UNCHANGED <<phase, memories, disk, tmp>>
  /\ UNCHANGED <<queueVars, retrVars, extVars>>

\* initialize(), any other error: throw error; the caller drops the instance
InitializeThrows ==
  /\ phase = "new"
  /\ ~saveScheduled
  /\ readFileThrows /\ ~isENOENT
  /\ phase' = "failed"
  /\ UNCHANGED <<memories, disk, tmp, saveVars>>
  /\ UNCHANGED <<queueVars, retrVars, extVars>>

\* the file at dbPath is damaged from outside the program
FileIsDamaged ==
  /\ disk # Absent
  /\ readable
  /\ readable' = FALSE
  /\ UNCHANGED <<storeVars, apiVars, mgrVars, loadVars, rankVars, appVars>>

\* addMemory(): push a pending record, then save()
AddMemory ==
  /\ phase = "up"
  /\ Len(memories) < MaxRecords
  /\ memories' = Append(memories, [embeddingStatus |-> "pending", embedding |-> NoEmbedding])
  /\ save("add")
  /\ UNCHANGED <<phase, disk, tmp>>
  /\ UNCHANGED <<queueVars, retrVars, extVars>>

\* ---- the store's operations called directly, each call observed to its outcome ----

CallIds == 1 .. (MaxRecords + 1)

\* await this.save() in a call: save() returns at once when a save is scheduled
\* and the call resolves; else the call takes the flag and waits for its flush
awaitSave(op, id) ==
  /\ save("api")
  /\ IF saveScheduled
     THEN /\ settled' = [op |-> op, id |-> id, outcome |-> "resolved"]
          /\ UNCHANGED waiter
     ELSE /\ waiter' = [op |-> op, id |-> id]
          /\ UNCHANGED settled

\* addMemory(text, imageUrl)
CallAddMemory ==
  /\ phase = "up"
  /\ Len(memories) < MaxRecords
  /\ memories' = Append(memories, [embeddingStatus |-> "pending", embedding |-> NoEmbedding])
  /\ awaitSave("addMemory", Len(memories) + 1)
  /\ UNCHANGED <<phase, disk, tmp>>
  /\ UNCHANGED <<queueVars, retrVars, readable, mgrVars, loadVars, rankVars, appVars>>

\* updateEmbedding(id, embedding): throws when no record has the id
CallUpdateEmbedding(id, e) ==
  /\ phase = "up"
  /\ IF id \notin Ids(memories)
     THEN /\ settled' = [op |-> "updateEmbedding", id |-> id, outcome |-> "threwNotFound"]
          /\ UNCHANGED <<memories, saveVars, waiter>>
     ELSE /\ memories' = updateEmbedding(memories, id, e)
          /\ awaitSave("updateEmbedding", id)
  /\ UNCHANGED <<phase, disk, tmp>>
  /\ UNCHANGED <<queueVars, retrVars, readable, mgrVars, loadVars, rankVars, appVars>>

\* markEmbeddingFailed(id): if (memory) { ... await this.save() }
CallMarkEmbeddingFailed(id) ==
  /\ phase = "up"
  /\ IF id \notin Ids(memories)
     THEN /\ settled' = [op |-> "markEmbeddingFailed", id |-> id, outcome |-> "resolved"]
          /\ UNCHANGED <<memories, saveVars, waiter>>
     ELSE /\ memories' = markEmbeddingFailed(memories, id)
          /\ awaitSave("markEmbeddingFailed", id)
  /\ UNCHANGED <<phase, disk, tmp>>
  /\ UNCHANGED <<queueVars, retrVars, readable, mgrVars, loadVars, rankVars, appVars>>

\* markEmbeddingProcessing(id): if (memory) { ... await this.save() }
CallMarkEmbeddingProcessing(id) ==
  /\ phase = "up"
  /\ IF id \notin Ids(memories)
     THEN /\ settled' = [op |-> "markEmbeddingProcessing", id |-> id, outcome |-> "resolved"]
          /\ UNCHANGED <<memories, saveVars, waiter>>
     ELSE /\ memories' = markEmbeddingProcessing(memories, id)
          /\ awaitSave("markEmbeddingProcessing", id)
  /\ UNCHANGED <<phase, disk, tmp>>
  /\ UNCHANGED <<queueVars, retrVars, readable, mgrVars, loadVars, rankVars, appVars>>

CallsUpdateEmbedding == \E id \in CallIds, e \in EmbeddingValues : CallUpdateEmbedding(id, e)

CallsMarkEmbeddingFailed == \E id \in CallIds : CallMarkEmbeddingFailed(id)

CallsMarkEmbeddingProcessing == \E id \in CallIds : CallMarkEmbeddingProcessing(id)

\* ---- save(), after the flag is taken ----

\* processLoop(): the catch clause, an error escaped processNextBatch():
\* sleep(processingDelay * 2), then the while condition again
\* (variant with a fault: the error ends the loop)
catchInLoopEndsLoop(l) == [pc EXCEPT ![l] = "idle"]

catchInLoop(l) == [pc EXCEPT ![l] = "sleep2"]

\* the processLoop() invocation that awaits its own save()
SaverLoop == CHOOSE l \in LoopIds : pc[l] \in {"markSave", "updateSave", "failSave"}

\* what the caller of save() does when save() returns (ok) or throws (~ok);
\* the finally clause has released the flag before either
SaveResume(ok) ==
  IF saver = "init" THEN
    /\ saveReleased
    /\ phase' = IF ok THEN "up" ELSE "new"
    /\ UNCHANGED <<memories, queueVars, apiVars>>
  ELSE IF saver = "add" THEN
    /\ saveReleased
    /\ UNCHANGED <<phase, memories, queueVars, apiVars>>
  ELSE IF saver = "api" THEN \* the observed call resolves, or rejects with the I/O error
    /\ saveReleased
    /\ settled' = [op |-> waiter.op, id |-> waiter.id,
                   outcome |-> IF ok THEN "resolved" ELSE "threwIO"]
    /\ waiter' = NoCall
    /\ UNCHANGED <<phase, memories, queueVars>>
  ELSE LET l == SaverLoop
           id == cur[l]
       IN
    /\ UNCHANGED <<phase, isRunning, apiVars>>
    /\ IF pc[l] = "markSave" THEN
         IF ok THEN \* markEmbeddingProcessing resolved: generateEmbedding is called
           /\ saveReleased
           /\ pc' = [pc EXCEPT ![l] = "embedding"]
           /\ UNCHANGED <<memories, isProcessing, cur>>
         ELSE \* catch: markEmbeddingFailed, whose save() takes the flag
           /\ memories' = markEmbeddingFailed(memories, id)
           /\ UNCHANGED <<saveScheduled, flushes>>
           /\ writing' = <<>>
           /\ saver' = "loop"
           /\ savePc' = "wait"
           /\ pc' = [pc EXCEPT ![l] = "failSave"]
           /\ UNCHANGED <<isProcessing, cur>>
       ELSE IF pc[l] = "updateSave" THEN
         IF ok THEN \* updateEmbedding resolved: finally, then sleep(processingDelay)
           /\ saveReleased
           /\ isProcessing' = FALSE
           /\ pc' = [pc EXCEPT ![l] = "sleep"]
           /\ cur' = [cur EXCEPT ![l] = 0]
           /\ UNCHANGED memories
         ELSE \* catch: markEmbeddingFailed, whose save() takes the flag
           /\ memories' = markEmbeddingFailed(memories, id)
           /\ UNCHANGED <<saveScheduled, flushes>>
           /\ writing' = <<>>
           /\ saver' = "loop"
           /\ savePc' = "wait"
           /\ pc' = [pc EXCEPT ![l] = "failSave"]
           /\ UNCHANGED <<isProcessing, cur>>
       ELSE \* pc[l] = "failSave": finally; a throw reaches processLoop's catch
         /\ saveReleased
         /\ isProcessing' = FALSE
         /\ pc' = IF ok THEN [pc EXCEPT ![l] = "sleep"] ELSE catchInLoop(l)
         /\ cur' = [cur EXCEPT ![l] = 0]
         /\ UNCHANGED memories

\* the debounce timer fires, mkdir succeeds, writeFile(tempPath, JSON.stringify(state)) starts
\* (variant with a fault: the state is written to dbPath itself)
SaveTimerWritesInPlace ==
  /\ saveScheduled /\ savePc = "wait"
  /\ writing' = memories
  /\ disk' = File(memories)
  /\ savePc' = "write"
  /\ UNCHANGED <<phase, memories, tmp, saveScheduled, saver, flushes>>
  /\ UNCHANGED <<queueVars, retrVars, extVars>>

SaveTimer ==
  /\ saveScheduled /\ savePc = "wait"
  /\ writing' = memories
  /\ tmp' = "partial"
  /\ savePc' = "write"
  /\ UNCHANGED <<phase, memories, disk, saveScheduled, saver, flushes>>
  /\ UNCHANGED <<queueVars, retrVars, extVars>>

\* writeFile resolves, rename(tempPath, dbPath) starts
SaveWritten ==
  /\ saveScheduled /\ savePc = "write"
  /\ tmp' = "complete"
  /\ savePc' = "rename"
  /\ UNCHANGED <<phase, memories, disk, writing, saveScheduled, saver, flushes>>
  /\ UNCHANGED <<queueVars, retrVars, extVars>>

\* rename resolves; finally; save() returns
SaveRenamed ==
  /\ saveScheduled /\ savePc = "rename"
  /\ disk' = File(writing)
  /\ tmp' = "absent"
  /\ readable' = TRUE
  /\ SaveResume(TRUE)
  /\ UNCHANGED <<retrVars, mgrVars, loadVars, rankVars, appVars>>

\* mkdir, writeFile or rename rejects; finally; save() throws
\* (variant with a fault: no finally clause, the flag stays set)
SaveFailsKeepsFlag ==
  /\ saveScheduled
  /\ settled' = [op |-> waiter.op, id |-> waiter.id, outcome |-> "threwIO"]
  /\ waiter' = NoCall
  /\ UNCHANGED <<storeVars, readable, mgrVars, loadVars, rankVars, appVars>>

SaveFails ==
  /\ saveScheduled
  /\ SaveResume(FALSE)
  /\ UNCHANGED <<disk, tmp, retrVars, readable, mgrVars, loadVars, rankVars, appVars>>

\* ---- EmbeddingQueue ----

\* processNextBatch(): the two early returns
\* (variant with a fault: the isProcessing test is missing)
returnsEarlyNoFlag(pending) == Len(pending) = 0

returnsEarly(pending) == isProcessing \/ Len(pending) = 0

\* processNextBatch(), up to its first suspension
processNextBatch(l) ==
  LET pending == getPendingMemories(memories) IN
  IF returnsEarly(pending) THEN
    \* returns; processLoop goes to sleep(processingDelay)
    /\ pc' = [pc EXCEPT ![l] = "sleep"]
    /\ cur' = [cur EXCEPT ![l] = 0]
    /\ UNCHANGED <<memories, saveVars, isProcessing>>
  ELSE LET id == pending[1] IN
    /\ isProcessing' = TRUE
    /\ cur' = [cur EXCEPT ![l] = id]
    /\ memories' = markEmbeddingProcessing(memories, id)
    /\ save("loop")
    \* when save() returned at once, generateEmbedding is called
    /\ pc' = [pc EXCEPT ![l] = IF saveScheduled THEN "embedding" ELSE "markSave"]

FreeLoops == {l \in LoopIds : pc[l] = "idle"}

\* start(): a call while running returns at once
Start ==
  /\ phase = "up"
  /\ ~isRunning
  /\ FreeLoops # {}
  /\ isRunning' = TRUE
  /\ LET l == CHOOSE x \in FreeLoops : \A y \in FreeLoops : x <= y
     IN processNextBatch(l)
  /\ UNCHANGED <<phase, disk, tmp, retrVars, extVars>>

\* stop()
Stop ==
  /\ isRunning
  /\ isRunning' = FALSE
  /\ UNCHANGED <<dbVars, isProcessing, pc, cur, retrVars, extVars>>

\* variant of Wake with a fault: the while condition is not tested
WakeIgnoresStop(l) ==
  /\ pc[l] \in {"sleep", "sleep2"}
  /\ processNextBatch(l)
  /\ UNCHANGED <<phase, disk, tmp, isRunning, retrVars, extVars>>

\* processLoop(): a sleep ends, the while condition is tested
Wake(l) ==
  /\ pc[l] \in {"sleep", "sleep2"}
  /\ IF isRunning THEN processNextBatch(l)
     ELSE /\ pc' = [pc EXCEPT ![l] = "idle"]
          /\ cur' = [cur EXCEPT ![l] = 0]
          /\ UNCHANGED <<memories, saveVars, isProcessing>>
  /\ UNCHANGED <<phase, disk, tmp, isRunning, retrVars, extVars>>

LoopWakes == \E l \in LoopIds : Wake(l)

\* generateEmbedding() settles for the record of loop l: resolves with e (ok) or rejects
ProviderSettles(l, ok, e) ==
  LET id == cur[l] IN
  /\ pc[l] = "embedding"
  /\ memories' = IF ok THEN updateEmbedding(memories, id, e)
                 ELSE markEmbeddingFailed(memories, id)
  /\ save("loop")
  /\ IF saveScheduled THEN \* save() returned at once: finally, sleep(processingDelay)
       /\ isProcessing' = FALSE
       /\ pc' = [pc EXCEPT ![l] = "sleep"]
       /\ cur' = [cur EXCEPT ![l] = 0]
     ELSE
       /\ pc' = [pc EXCEPT ![l] = IF ok THEN "updateSave" ELSE "failSave"]
       /\ UNCHANGED <<isProcessing, cur>>
  /\ UNCHANGED <<phase, disk, tmp, isRunning, retrVars, extVars>>

ProviderReturns == \E l \in LoopIds : \E e \in EmbeddingValues : ProviderSettles(l, TRUE, e)

ProviderThrows == \E l \in LoopIds : ProviderSettles(l, FALSE, NoEmbedding)

ProviderAnswers(l) ==
  \/ \E e \in EmbeddingValues : ProviderSettles(l, TRUE, e)
  \/ ProviderSettles(l, FALSE, NoEmbedding)

\* ---- retrieveTopK ----

\* retrieveTopK up to "await generateEmbedding(query)"
retrieveTopKCalled ==
  /\ phase = "up"
  /\ query = {}
  /\ LET embeddedMemories == getEmbeddedMemories(memories) IN
     IF Len(embeddedMemories) = 0
     THEN /\ result' = {}
          /\ query' = {}
     ELSE /\ query' = {embeddedMemories[i] : i \in 1..Len(embeddedMemories)}
          /\ UNCHANGED result

RetrieveStart ==
  /\ retrieveTopKCalled
  /\ UNCHANGED <<dbVars, queueVars, extVars>>

\* the records retrieveTopK may return for candidates c and k: the first k of
\* the candidates that still have an embedding, in an order not modelled here
\* (variant with a fault: candidates under a relevance threshold are dropped,
\* so that fewer than k, and none at all, may be returned)
TopKAboveThreshold(c, k) ==
  LET live == {i \in c : memories[i].embedding # NoEmbedding}
  IN {s \in SUBSET live : Cardinality(s) <= k}

TopK(c, k) ==
  LET live == {i \in c : memories[i].embedding # NoEmbedding}
  IN {s \in SUBSET live : Cardinality(s) = IF k < Cardinality(live) THEN k ELSE Cardinality(live)}

\* the query embedding arrives; the result holds the records as the caller reads them
retrieveTopKReturned ==
  /\ query # {}
  /\ \E k \in 1..MaxK : \E s \in TopK(query, k) :
       result' = {memories[i] : i \in s}
  /\ query' = {}

RetrieveReturns ==
  /\ retrieveTopKReturned
  /\ UNCHANGED <<dbVars, queueVars, extVars>>

\* the query embedding fails: retrieveTopK throws
retrieveTopKThrew ==
  /\ query # {}
  /\ query' = {}
  /\ UNCHANGED result

RetrieveThrows ==
  /\ retrieveTopKThrew
  /\ UNCHANGED <<dbVars, queueVars, extVars>>

\* ---- retrieveTopK, the ranking ----
\* Similarities are counted in hundredths and times in hours, so that the
\* penalty 0.01 * hoursOld is the number of hours.

Candidate == [similarity : 0 .. MaxSimilarity, time : 0 .. MaxClock]

\* timePenalty = 0.01 * hoursOld, in hundredths
timePenalty(memory) == now - memory.time

\* combinedScore = semanticSimilarity - timePenalty
\* (variant with a fault: the age is not counted)
combinedScoreIsSimilarity(memory) == memory.similarity

combinedScore(memory) == memory.similarity - timePenalty(memory)

\* embeddedMemories.filter(...).map(...): one entry per candidate
scored(cs) ==
  [i \in DOMAIN cs |-> [memory |-> i, similarity |-> cs[i].similarity,
                        combinedScore |-> combinedScore(cs[i])]]

\* results.sort((a, b) => b.combinedScore - a.combinedScore): the sort is
\* stable, an entry goes behind those of an equal or higher score before it
inserted(rs, r) ==
  LET n == Cardinality({i \in DOMAIN rs : rs[i].combinedScore >= r.combinedScore})
  IN SubSeq(rs, 1, n) \o <<r>> \o SubSeq(rs, n + 1, Len(rs))

RECURSIVE sorted(_)
sorted(rs) ==
  IF rs = <<>> THEN <<>>
  ELSE inserted(sorted(SubSeq(rs, 1, Len(rs) - 1)), rs[Len(rs)])

\* results.slice(0, k).map(({ memory, similarity }) => ({ memory, similarity }))
sliced(rs, k) ==
  [i \in 1 .. (IF k < Len(rs) THEN k ELSE Len(rs)) |->
     [memory |-> rs[i].memory, similarity |-> rs[i].similarity]]

\* retrieveTopK(query, db, k), once the query embedding is there
Rank(k) ==
  /\ kArg = 0
  /\ kArg' = k
  /\ topK' = sliced(sorted(scored(candidates)), k)
  /\ UNCHANGED <<candidates, vectors, storeVars, readable, apiVars, mgrVars, loadVars, appVars>>

Ranks == \E k \in 1 .. MaxK : Rank(k)

\* the candidate lists a store can hold at a time: no record is of the
\* future, and addMemory() appends, so that a record is no older than those
\* before it
RankInit ==
  /\ Constructed
  /\ now \in 0 .. MaxClock
  /\ \E n \in 0 .. MaxRecords : candidates \in [1 .. n -> Candidate]
  /\ \A i \in DOMAIN candidates : candidates[i].time <= now
  /\ \A i, j \in DOMAIN candidates : i < j => candidates[i].time <= candidates[j].time
  /\ vectors = NoVectors(<<>>, <<>>)

RankNext == Ranks

RankSpec == RankInit /\ [][RankNext]_vars

\* ---- cosineSimilarity ----

Components == {0, 1}

Vectors == UNION {[1 .. n -> Components] : n \in 0 .. MaxDim}

\* a[i] ?? 0
component(v, i) == IF i \in DOMAIN v THEN v[i] ELSE 0

\* the sums of the loop over i < a.length
RECURSIVE sumOfProducts(_, _, _)
sumOfProducts(a, b, n) ==
  IF n = 0 THEN 0 ELSE sumOfProducts(a, b, n - 1) + component(a, n) * component(b, n)

\* the test a.length !== b.length
\* (variant with a fault: vectors of any two lengths are compared)
lengthsDifferNever(a, b) == FALSE

lengthsDiffer(a, b) == Len(a) # Len(b)

\* the test normA === 0 || normB === 0, on the sums of squares
\* (variant with a fault: the quotient is taken for any norms)
hasZeroNormNever(normA, normB) == FALSE

hasZeroNorm(normA, normB) == normA = 0 \/ normB = 0

\* what a call gives: it throws, or it returns dotProduct / (normA * normB),
\* kept as the numerator and the square of the denominator
Throws == [threw |-> TRUE, dotProduct |-> 0, norms |-> 1]

Returns(dotProduct, norms) == [threw |-> FALSE, dotProduct |-> dotProduct, norms |-> norms]

cosineSimilarity(a, b) ==
  IF lengthsDiffer(a, b) THEN Throws
  ELSE LET dotProduct == sumOfProducts(a, b, Len(a))
           normA == sumOfProducts(a, a, Len(a))
           normB == sumOfProducts(b, b, Len(a))
       IN IF hasZeroNorm(normA, normB) THEN Returns(0, 1)
          ELSE Returns(dotProduct, normA * normB)

\* retrieveTopK: the map over embeddedMemories calls cosineSimilarity for
\* each candidate; an error of a call ends retrieveTopK without a result
Similarities ==
  LET q == vectors.queryEmbedding
      es == vectors.embeddings
      all == [i \in DOMAIN es |-> cosineSimilarity(q, es[i])]
      thrown == \E i \in DOMAIN es : all[i].threw
  IN /\ ~vectors.called
     /\ vectors' = [vectors EXCEPT !.called = TRUE,
                                   !.threw = thrown,
                                   !.similarities = IF thrown THEN <<>> ELSE all]
     /\ UNCHANGED <<candidates, kArg, topK, storeVars, readable, apiVars, mgrVars, loadVars, appVars>>

\* the query embedding and the embeddings of the completed records, as the
\* provider gave them
VectorInit ==
  /\ Constructed
  /\ now = 0
  /\ candidates = <<>>
  /\ \E q \in Vectors : \E n \in 0 .. MaxRecords : \E es \in [1 .. n -> Vectors] :
       vectors = NoVectors(q, es)

VectorNext == Similarities

VectorSpec == VectorInit /\ [][VectorNext]_vars

\* ---- the process ends without a clean shutdown ----

\* what is in memory is gone: the next process constructs its objects anew
processRestarts ==
  /\ phase' = "new"
  /\ memories' = <<>>
  /\ saveReleased
  /\ isRunning' = FALSE
  /\ isProcessing' = FALSE
  /\ pc' = [l \in LoopIds |-> "idle"]
  /\ cur' = [l \in LoopIds |-> 0]
  /\ query' = {}
  /\ result' = {}
  /\ waiter' = NoCall

Crash ==
  /\ phase \in {"up", "failed"}
  /\ processRestarts
  /\ UNCHANGED <<disk, tmp, readable, settled, mgrVars, loadVars, rankVars, appVars>>

Next ==
  \/ InitializeLoad
  \/ InitializeCreate
  \/ AddMemory
  \/ SaveTimer
  \/ SaveWritten
  \/ SaveRenamed
  \/ SaveFails
  \/ Start
  \/ Stop
  \/ LoopWakes
  \/ ProviderReturns
  \/ ProviderThrows
  \/ RetrieveStart
  \/ RetrieveReturns
  \/ RetrieveThrows
  \/ Crash

Spec == Init /\ [][Next]_vars

\* The worker and the store in one process that does not crash, where every
\* timer fires, every file operation settles and every provider call settles.
LiveNext ==
  \/ InitializeCreate
  \/ AddMemory
  \/ SaveTimer
  \/ SaveWritten
  \/ SaveRenamed
  \/ SaveFails
  \/ Start
  \/ Stop
  \/ LoopWakes
  \/ ProviderReturns
  \/ ProviderThrows

Fairness ==
  /\ WF_vars(SaveTimer \/ SaveWritten \/ SaveRenamed \/ SaveFails)
  /\ \A l \in LoopIds : WF_vars(Wake(l))
  /\ \A l \in LoopIds : WF_vars(ProviderAnswers(l))

LiveSpec == Init /\ [][LiveNext]_vars /\ Fairness

\* The same process, named once more for the properties of the loop's error
\* handling and once more for those of stop().
BackoffSpec == Init /\ [][LiveNext]_vars /\ Fairness

StopSpec == Init /\ [][LiveNext]_vars /\ Fairness

\* ---- DatabaseManager ----
\* The database with the id OwnedDb is the one whose MemoryDatabase instance
\* and file the store variables model; of the others only the file's
\* existence is kept.

\* this.state, as save() serialises it and initialize() parses it
ManagerState == [databases |-> databases, activeDatabase |-> activeDatabase]

\* databases.json while a writeFile into it is under way or was cut short
Truncated == File([databases |-> <<>>, activeDatabase |-> NoDatabase])

DbIdsOf(dbs) == {dbs[i].id : i \in DOMAIN dbs}

storeFileExists(id) == IF id = OwnedDb THEN disk # Absent ELSE id \in storeFiles

\* the store variables that no DatabaseManager operation touches
storeRest == <<tmp, saveVars, queueVars, retrVars, apiVars, loadVars, rankVars, appVars>>

\* a call of the DatabaseManager settles: it returns true or false, or throws
returns(op, id, value) == mgrReturned' = [op |-> op, id |-> id, result |-> value]

\* time passes
Tick ==
  /\ now < MaxClock
  /\ now' = now + 1
  /\ UNCHANGED <<mgrPc, mgrArg, databases, activeDatabase, loadedDatabases, registry,
                 storeFiles, nextDbId, mgrReturned, registryWhole, constructed>>
  /\ UNCHANGED <<storeVars, readable, apiVars, loadVars, rankVars, appVars>>

\* initialize(): the entries whose fs.access(filePath) succeeds
validated(dbs) == SelectSeq(dbs, LAMBDA d : storeFileExists(d.id))

\* createDatabase(name), up to await db.initialize(): the metadata is pushed
createDatabase(name, awaiting) ==
  LET id == nextDbId + 1 IN
  /\ nextDbId < MaxDbs
  /\ nextDbId' = id
  /\ databases' = Append(databases, [id |-> id, name |-> name, lastAccessedAt |-> now])
  /\ mgrArg' = id
  /\ mgrPc' = awaiting
  /\ constructed' = [constructed EXCEPT ![id] = @ + 1]
  /\ UNCHANGED <<activeDatabase, loadedDatabases, registry, storeFiles, mgrReturned,
                 registryWhole, now>>

\* initialize(), databases.json missing: createDatabase('default')
MgrInitializeCreate ==
  /\ mgrPc = "new"
  /\ registry = Absent
  /\ createDatabase("default", "initializeCreate")
  /\ UNCHANGED <<storeVars, readable, apiVars, loadVars, rankVars, appVars>>

\* initialize(), after this.state is set: the entries with a missing file
\* are removed; a null activeDatabase becomes the first entry and is saved
validate(dbs, active) ==
  LET kept == validated(dbs) IN
  /\ databases' = kept
  /\ IF active = NoDatabase /\ kept # <<>>
     THEN /\ activeDatabase' = kept[1].id
          /\ mgrPc' = "initializeSave"
          /\ UNCHANGED mgrReturned
     ELSE /\ activeDatabase' = active
          /\ mgrPc' = "idle"
          /\ returns("initialize", NoDatabase, "true")

\* initialize(), databases.json present: this.state = JSON.parse(data)
MgrInitializeLoad ==
  /\ mgrPc = "new"
  /\ registry # Absent /\ registryWhole
  /\ validate(Content(registry).databases, Content(registry).activeDatabase)
  /\ UNCHANGED <<mgrArg, loadedDatabases, registry, storeFiles, nextDbId, registryWhole, now, constructed>>
  /\ UNCHANGED <<storeVars, readable, apiVars, loadVars, rankVars, appVars>>

\* initialize(), databases.json present but not a JSON text: JSON.parse
\* throws, the error is not ENOENT and is thrown on
MgrInitializeThrows ==
  /\ mgrPc = "new"
  /\ registry # Absent /\ ~registryWhole
  /\ mgrPc' = "failed"
  /\ returns("initialize", NoDatabase, "threw")
  /\ UNCHANGED <<mgrArg, databases, activeDatabase, loadedDatabases, registry, storeFiles,
                 nextDbId, registryWhole, now, constructed>>
  /\ UNCHANGED <<storeVars, readable, apiVars, loadVars, rankVars, appVars>>

\* createDatabase(name)
MgrCreate(name) ==
  /\ mgrPc = "idle"
  /\ createDatabase(name, "createInitialize")
  /\ UNCHANGED <<storeVars, readable, apiVars, loadVars, rankVars>>

\* createDatabase(): the active database once the new store is initialized
\* (variant with a fault: the new store is always made active)
activeAfterCreateIsNew(id) == id

activeAfterCreate(id) == IF activeDatabase = NoDatabase THEN id ELSE activeDatabase

\* createDatabase(): db.initialize() of the new MemoryDatabase settles; the id
\* is new, so no file was there and initialize() has written the empty store
\* when it resolves
MgrStoreInitialized(ok) ==
  /\ mgrPc \in {"initializeCreate", "createInitialize"}
  /\ IF ok
     THEN /\ IF mgrArg = OwnedDb
             THEN /\ phase' = "up"
                  /\ memories' = <<>>
                  /\ disk' = File(<<>>)
                  /\ readable' = TRUE
                  /\ UNCHANGED storeFiles
             ELSE /\ storeFiles' = storeFiles \cup {mgrArg}
                  /\ UNCHANGED <<phase, memories, disk, readable>>
          /\ loadedDatabases' = loadedDatabases \cup {mgrArg}
          /\ activeDatabase' = activeAfterCreate(mgrArg)
          /\ mgrPc' = IF mgrPc = "initializeCreate" THEN "initializeCreateSave" ELSE "createSave"
          /\ UNCHANGED <<mgrArg, mgrReturned>>
     ELSE /\ mgrPc' = IF mgrPc = "initializeCreate" THEN "failed" ELSE "idle"
          /\ mgrArg' = NoDatabase
          /\ IF mgrPc = "initializeCreate"
             THEN returns("initialize", NoDatabase, "threw")
             ELSE returns("createDatabase", mgrArg, "threw")
          /\ UNCHANGED <<storeFiles, loadedDatabases, activeDatabase>>
          /\ UNCHANGED <<phase, memories, disk, readable>>
  /\ constructed' = IF ok THEN constructed ELSE [constructed EXCEPT ![mgrArg] = @ - 1]
  /\ UNCHANGED <<databases, registry, nextDbId, registryWhole, now>>
  /\ UNCHANGED storeRest

MgrStoreInitializes == \E ok \in BOOLEAN : MgrStoreInitialized(ok)

\* switchDatabase(): metadata.lastAccessedAt = Date.now()
\* (variant with a fault: every entry is stamped)
touchedAll(dbs, id) ==
  [i \in DOMAIN dbs |-> [dbs[i] EXCEPT !.lastAccessedAt = now]]

touched(dbs, id) ==
  [i \in DOMAIN dbs |->
     IF dbs[i].id = id THEN [dbs[i] EXCEPT !.lastAccessedAt = now] ELSE dbs[i]]

\* switchDatabase(id)
MgrSwitch(id) ==
  /\ mgrPc = "idle"
  /\ IF id \in DbIdsOf(databases)
     THEN /\ activeDatabase' = id
          /\ databases' = touched(databases, id)
          /\ mgrArg' = id
          /\ mgrPc' = "switchSave"
          /\ UNCHANGED mgrReturned
     ELSE /\ returns("switchDatabase", id, "false")
          /\ UNCHANGED <<activeDatabase, databases, mgrArg, mgrPc>>
  /\ UNCHANGED <<loadedDatabases, registry, storeFiles, nextDbId, registryWhole, now, constructed>>
  /\ UNCHANGED <<storeVars, readable, apiVars, loadVars, rankVars>>

\* renameDatabase(id, newName)
MgrRename(id, newName) ==
  /\ mgrPc = "idle"
  /\ IF id \in DbIdsOf(databases)
     THEN /\ databases' = [i \in DOMAIN databases |->
                             IF databases[i].id = id
                             THEN [databases[i] EXCEPT !.name = newName]
                             ELSE databases[i]]
          /\ mgrArg' = id
          /\ mgrPc' = "renameSave"
          /\ UNCHANGED mgrReturned
     ELSE /\ returns("renameDatabase", id, "false")
          /\ UNCHANGED <<databases, mgrArg, mgrPc>>
  /\ UNCHANGED <<activeDatabase, loadedDatabases, registry, storeFiles, nextDbId,
                 registryWhole, now, constructed>>
  /\ UNCHANGED <<storeVars, readable, apiVars, loadVars, rankVars, appVars>>

\* deleteDatabase(): the test that refuses to delete the last database
\* (variant with a fault: the test is missing)
isLastDatabaseNever(dbs) == FALSE

isLastDatabase(dbs) == Len(dbs) = 1

\* deleteDatabase(): the active database after the entry id is removed
\* (variant with a fault: no other database is made active)
activeAfterDeleteIsNull(rest, id) ==
  IF activeDatabase = id THEN NoDatabase ELSE activeDatabase

activeAfterDelete(rest, id) ==
  IF activeDatabase = id
  THEN (IF rest = <<>> THEN NoDatabase ELSE rest[1].id)
  ELSE activeDatabase

\* deleteDatabase(id), up to await fs.unlink(metadata.filePath)
MgrDelete(id) ==
  /\ mgrPc = "idle"
  /\ IF id \in DbIdsOf(databases) /\ ~isLastDatabase(databases)
     THEN LET rest == SelectSeq(databases, LAMBDA d : d.id # id) IN
          /\ databases' = rest
          /\ activeDatabase' = activeAfterDelete(rest, id)
          /\ loadedDatabases' = loadedDatabases \ {id}
          /\ mgrArg' = id
          /\ mgrPc' = "deleteUnlink"
          /\ UNCHANGED mgrReturned
     ELSE /\ returns("deleteDatabase", id, "false")
          /\ UNCHANGED <<databases, activeDatabase, loadedDatabases, mgrArg, mgrPc>>
  /\ UNCHANGED <<registry, storeFiles, nextDbId, registryWhole, now, constructed>>
  /\ UNCHANGED <<storeVars, readable, apiVars, loadVars, rankVars, appVars>>

\* deleteDatabase(): unlink settles (its error is ignored), save() is called
MgrUnlinked(ok) ==
  /\ mgrPc = "deleteUnlink"
  /\ IF ok /\ mgrArg = OwnedDb
     THEN /\ disk' = Absent
          /\ UNCHANGED storeFiles
     ELSE /\ storeFiles' = IF ok THEN storeFiles \ {mgrArg} ELSE storeFiles
          /\ UNCHANGED disk
  /\ mgrPc' = "deleteSave"
  /\ UNCHANGED <<mgrArg, databases, activeDatabase, loadedDatabases, registry, nextDbId,
                 mgrReturned, registryWhole, now, constructed>>
  /\ UNCHANGED <<phase, memories, readable, storeRest>>

MgrUnlinks == \E ok \in BOOLEAN : MgrUnlinked(ok)

MgrUnlinkSucceeds == MgrUnlinked(TRUE)

\* the operation whose save() is awaited at a position
InitializeSaves == {"initializeCreateSave", "initializeSecondSave", "initializeSave"}

Saves == InitializeSaves \cup {"createSave", "switchSave", "renameSave", "deleteSave"}

opAt(at) ==
  IF at \in InitializeSaves THEN "initialize"
  ELSE IF at = "createSave" THEN "createDatabase"
  ELSE IF at = "switchSave" THEN "switchDatabase"
  ELSE IF at = "renameSave" THEN "renameDatabase"
  ELSE "deleteDatabase"

\* save(): fs.writeFile(configPath, ...) has opened databases.json, which
\* truncates it, and has not written all of the text yet
MgrWriteStarts ==
  /\ mgrPc \in Saves
  /\ registryWhole
  /\ registry' = Truncated
  /\ registryWhole' = FALSE
  /\ UNCHANGED <<mgrPc, mgrArg, databases, activeDatabase, loadedDatabases, storeFiles,
                 nextDbId, mgrReturned, now, constructed>>
  /\ UNCHANGED <<storeVars, readable, apiVars, loadVars, rankVars, appVars>>

\* save(): fs.writeFile(configPath, JSON.stringify(this.state)) settles, and
\* the operation that awaits it goes on, or throws
MgrSaved(ok) ==
  /\ mgrPc \in Saves
  /\ registry' = IF ok THEN File(ManagerState) ELSE registry
  /\ registryWhole' = IF ok THEN TRUE ELSE registryWhole
  /\ IF ~ok
     THEN /\ mgrPc' = IF mgrPc \in InitializeSaves THEN "failed" ELSE "idle"
          /\ returns(opAt(mgrPc), mgrArg, "threw")
          /\ UNCHANGED <<databases, activeDatabase>>
     ELSE IF mgrPc = "initializeCreateSave"
     THEN /\ mgrPc' = "initializeSecondSave"
          /\ UNCHANGED <<databases, activeDatabase, mgrReturned>>
     ELSE IF mgrPc = "initializeSecondSave"
     THEN validate(databases, activeDatabase)
     ELSE /\ mgrPc' = "idle"
          /\ returns(opAt(mgrPc), mgrArg, "true")
          /\ UNCHANGED <<databases, activeDatabase>>
  /\ mgrArg' = NoDatabase
  /\ UNCHANGED <<loadedDatabases, storeFiles, nextDbId, now, constructed>>
  /\ UNCHANGED <<storeVars, readable, apiVars, loadVars, rankVars, appVars>>

MgrSaves == \E ok \in BOOLEAN : MgrSaved(ok)

\* the process is killed and started again: a new DatabaseManager
MgrCrash ==
  /\ mgrPc # "new"
  /\ mgrPc' = "new"
  /\ mgrArg' = NoDatabase
  /\ databases' = <<>>
  /\ activeDatabase' = NoDatabase
  /\ loadedDatabases' = {}
  /\ mgrReturned' = NoReturn
  /\ constructed' = [id \in DbIds |-> 0]
  /\ getPc' = [c \in Callers |-> "idle"]
  /\ getArg' = [c \in Callers |-> NoDatabase]
  /\ processRestarts
  /\ UNCHANGED <<registry, storeFiles, nextDbId, registryWhole, now>>
  /\ embeddingQueues' = [id \in DbIds |-> "none"]
  /\ handler' = NoHandler
  /\ UNCHANGED <<disk, tmp, readable, settled, rankVars>>

\* calls that no handler modelled here makes
MgrCreates == \E name \in Names : MgrCreate(name) /\ UNCHANGED appVars

MgrSwitches == \E id \in DbIds : MgrSwitch(id) /\ UNCHANGED appVars

MgrRenames == \E id \in DbIds, newName \in Names : MgrRename(id, newName)

MgrDeletes == \E id \in DbIds : MgrDelete(id)

\* The DatabaseManager alone, one operation at a time, across restarts.
ManagerNext ==
  \/ MgrInitializeCreate
  \/ MgrInitializeLoad
  \/ MgrInitializeThrows
  \/ MgrCreates
  \/ MgrStoreInitializes
  \/ MgrSwitches
  \/ MgrRenames
  \/ MgrDeletes
  \/ MgrUnlinks
  \/ MgrWriteStarts
  \/ MgrSaves
  \/ MgrCrash

ManagerSpec == Init /\ [][ManagerNext]_vars

\* getDatabase(id), up to await db.initialize(): null for an id without
\* metadata, the cached instance when there is one, else a new MemoryDatabase
GetCall(c, id) ==
  /\ mgrPc = "idle"
  /\ getPc[c] = "idle"
  /\ id \in DbIdsOf(databases)
  /\ id \notin loadedDatabases
  /\ constructed' = [constructed EXCEPT ![id] = @ + 1]
  /\ getPc' = [getPc EXCEPT ![c] = "initialize"]
  /\ getArg' = [getArg EXCEPT ![c] = id]
  /\ UNCHANGED <<mgrPc, mgrArg, databases, activeDatabase, loadedDatabases, registry,
                 storeFiles, nextDbId, mgrReturned, registryWhole, now>>
  /\ UNCHANGED <<storeVars, readable, apiVars, rankVars>>

\* a call that no handler modelled here makes
GetCalls == \E c \in Callers, id \in DbIds : GetCall(c, id) /\ UNCHANGED appVars

\* getDatabase(): db.initialize() settles; the instance is put in the cache,
\* the entry is stamped and save() is called, or the error is thrown on
GetInitialized(c, ok) ==
  LET id == getArg[c] IN
  /\ getPc[c] = "initialize"
  /\ IF ok
     THEN /\ loadedDatabases' = loadedDatabases \cup {id}
          /\ databases' = touched(databases, id)
          /\ getPc' = [getPc EXCEPT ![c] = "save"]
          /\ IF id = OwnedDb
             THEN /\ disk' = IF disk = Absent THEN File(<<>>) ELSE disk
                  /\ phase' = IF phase = "new" THEN "up" ELSE phase
                  /\ memories' = IF phase = "new" /\ disk # Absent THEN Content(disk)
                                 ELSE memories
                  /\ readable' = IF disk = Absent THEN TRUE ELSE readable
                  /\ UNCHANGED storeFiles
             ELSE /\ storeFiles' = storeFiles \cup {id}
                  /\ UNCHANGED <<phase, memories, disk, readable>>
          /\ UNCHANGED <<constructed, getArg>>
     ELSE /\ constructed' = [constructed EXCEPT ![id] = @ - 1]
          /\ getPc' = [getPc EXCEPT ![c] = "idle"]
          /\ getArg' = [getArg EXCEPT ![c] = NoDatabase]
          /\ UNCHANGED <<loadedDatabases, databases, storeFiles>>
          /\ UNCHANGED <<phase, memories, disk, readable>>
  /\ UNCHANGED <<mgrPc, mgrArg, activeDatabase, registry, nextDbId, mgrReturned,
                 registryWhole, now>>
  /\ UNCHANGED <<tmp, saveVars, queueVars, retrVars, apiVars, rankVars, appVars>>

GetInitializes == \E c \in Callers, ok \in BOOLEAN : GetInitialized(c, ok)

\* getDatabase(): save() settles and the instance is returned, or the error
\* is thrown on
GetSaved(c, ok) ==
  /\ getPc[c] = "save"
  /\ registry' = IF ok THEN File(ManagerState) ELSE registry
  /\ registryWhole' = IF ok THEN TRUE ELSE registryWhole
  /\ getPc' = [getPc EXCEPT ![c] = "idle"]
  /\ getArg' = [getArg EXCEPT ![c] = NoDatabase]
  /\ UNCHANGED <<mgrPc, mgrArg, databases, activeDatabase, loadedDatabases, storeFiles,
                 nextDbId, mgrReturned, now, constructed>>
  /\ UNCHANGED <<storeVars, readable, apiVars, rankVars, appVars>>

GetSaves == \E c \in Callers, ok \in BOOLEAN : GetSaved(c, ok)

\* The DatabaseManager of a process that is started again, and the callers
\* of getDatabase in it.
LoadNext ==
  \/ MgrInitializeCreate
  \/ MgrInitializeLoad
  \/ MgrStoreInitializes
  \/ MgrSaves
  \/ MgrCreates
  \/ MgrCrash
  \/ GetCalls
  \/ GetInitializes
  \/ GetSaves

LoadSpec == Init /\ [][LoadNext]_vars

\* ---- the handlers of the main process ----
\* embeddingQueues[id] is "none" when the map has no queue for id, "idle" when
\* it has one on which start() was not called, "running" when start() was
\* called on it.  Of the queues only this is kept here.

HandlerCaller == 1

\* getEmbeddingQueue(db, dbId): a queue is made and put in the map when the
\* map has none
getEmbeddingQueue(queues, id) ==
  IF queues[id] = "none" THEN [queues EXCEPT ![id] = "idle"] ELSE queues

\* queue.start()
started(queues, id) == [queues EXCEPT ![id] = "running"]

\* switch-database: const queue = getEmbeddingQueue(db, id);
\* if (!embeddingQueues.has(id)) { queue.start(); }
startedIfMissing(queues, id) ==
  LET got == getEmbeddingQueue(queues, id)
  IN IF got[id] = "none" THEN started(got, id) ELSE got

handlerAt(op, id, at) == handler' = [op |-> op, id |-> id, at |-> at]

HandlerFree == handler.op # NoOne /\ handler.at \in {"idle", "done"}

\* after login: await dbManager.initialize() has returned, the active
\* database is in the cache: its queue is got and started
StartupFindsLoaded ==
  /\ handler.op = NoOne
  /\ mgrPc = "idle"
  /\ IF activeDatabase = NoDatabase
     THEN /\ handlerAt("startup", NoDatabase, "done")
          /\ UNCHANGED embeddingQueues
     ELSE /\ activeDatabase \in DbIdsOf(databases) \cap loadedDatabases
          /\ handlerAt("startup", activeDatabase, "done")
          /\ embeddingQueues' = started(getEmbeddingQueue(embeddingQueues, activeDatabase),
                                        activeDatabase)
  /\ UNCHANGED <<storeVars, readable, apiVars, mgrVars, loadVars, rankVars>>

\* after login: the active database is not in the cache, getActiveDatabase()
\* loads it
StartupLoads ==
  /\ handler.op = NoOne
  /\ activeDatabase # NoDatabase
  /\ GetCall(HandlerCaller, activeDatabase)
  /\ handlerAt("startup", activeDatabase, "load")
  /\ UNCHANGED embeddingQueues

\* create-database: dbManager.createDatabase(name) is called
CreateHandler(name) ==
  /\ HandlerFree
  /\ MgrCreate(name)
  /\ handlerAt("create", nextDbId + 1, "manager")
  /\ UNCHANGED embeddingQueues

CreateHandlers == \E name \in Names : CreateHandler(name)

\* create-database: createDatabase has returned the id or has thrown; the
\* new database is in the cache, its queue is got and started
CreateReturned ==
  /\ handler.op = "create" /\ handler.at = "manager"
  /\ mgrPc = "idle"
  /\ IF mgrReturned.result = "true"
     THEN /\ embeddingQueues' = started(getEmbeddingQueue(embeddingQueues, handler.id),
                                        handler.id)
          /\ handlerAt("create", handler.id, "done")
     ELSE /\ handlerAt("create", handler.id, "idle")
          /\ UNCHANGED embeddingQueues
  /\ UNCHANGED <<storeVars, readable, apiVars, mgrVars, loadVars, rankVars>>

\* switch-database: dbManager.switchDatabase(id) is called; it returns false
\* at once for an id without metadata
SwitchHandler(id) ==
  /\ HandlerFree
  /\ MgrSwitch(id)
  /\ handlerAt("switch", id, IF id \in DbIdsOf(databases) THEN "manager" ELSE "idle")
  /\ UNCHANGED embeddingQueues

SwitchHandlers == \E id \in DbIds : SwitchHandler(id)

\* switch-database: switchDatabase has returned true and the database is in
\* the cache, or it has thrown
SwitchReturned ==
  /\ handler.op = "switch" /\ handler.at = "manager"
  /\ mgrPc = "idle"
  /\ IF mgrReturned.result = "true"
     THEN /\ handler.id \in loadedDatabases
          /\ embeddingQueues' = startedIfMissing(embeddingQueues, handler.id)
          /\ handlerAt("switch", handler.id, "done")
     ELSE /\ handlerAt("switch", handler.id, "idle")
          /\ UNCHANGED embeddingQueues
  /\ UNCHANGED <<storeVars, readable, apiVars, mgrVars, loadVars, rankVars>>

\* switch-database: switchDatabase has returned true and the database is not
\* in the cache, getDatabase(id) loads it
SwitchLoads ==
  /\ handler.op = "switch" /\ handler.at = "manager"
  /\ mgrReturned.result = "true"
  /\ GetCall(HandlerCaller, handler.id)
  /\ handlerAt("switch", handler.id, "load")
  /\ UNCHANGED embeddingQueues

\* getDatabase(id) of the handler has returned the database
HandlerLoaded ==
  /\ handler.at = "load"
  /\ getPc[HandlerCaller] = "idle"
  /\ embeddingQueues' = IF handler.op = "switch"
                        THEN startedIfMissing(embeddingQueues, handler.id)
                        ELSE started(getEmbeddingQueue(embeddingQueues, handler.id),
                                     handler.id)
  /\ handlerAt(handler.op, handler.id, "done")
  /\ UNCHANGED <<storeVars, readable, apiVars, mgrVars, loadVars, rankVars>>

GetInitializeSucceeds == GetInitialized(HandlerCaller, TRUE)

GetSaveSucceeds == GetSaved(HandlerCaller, TRUE)

\* The main process and its DatabaseManager across restarts, where the
\* loading of a database does not fail.
AppNext ==
  \/ MgrInitializeCreate
  \/ MgrInitializeLoad
  \/ MgrStoreInitializes
  \/ MgrSaves
  \/ MgrCrash
  \/ StartupFindsLoaded
  \/ StartupLoads
  \/ CreateHandlers
  \/ CreateReturned
  \/ SwitchHandlers
  \/ SwitchReturned
  \/ SwitchLoads
  \/ HandlerLoaded
  \/ GetInitializeSucceeds
  \/ GetSaveSucceeds

AppSpec == Init /\ [][AppNext]_vars

\* ---- the ask-question handler of the main process ----
\* The store modelled is the active database of the handler; handler.at is
\* "search" while retrieveTopK is awaited, "answer" once
\* askWithImagesStreaming(question, topResults, ...) was called with the
\* result, "noMemories" when NO_MEMORIES_MESSAGE was returned and "error" when
\* the catch block replied.

askVars == <<dbVars, queueVars, readable, apiVars, mgrVars, loadVars, rankVars,
             embeddingQueues>>

NoHandlerUnderWay == handler.at \in {"idle", "done", "noMemories", "answer", "error"}

\* ask-question: if (stats.total === 0)
noMemories(stats) == stats.total = 0

\* ask-question up to the first await of retrieveTopK; a retrieveTopK that
\* finds no completed record returns [] and the handler goes on with it
AskQuestion ==
  /\ NoHandlerUnderWay
  /\ phase = "up"
  /\ query = {}
  /\ IF noMemories(getStats(memories))
     THEN /\ handlerAt("ask", NoDatabase, "noMemories")
          /\ UNCHANGED retrVars
     ELSE /\ retrieveTopKCalled
          /\ handlerAt("ask", NoDatabase,
                       IF getEmbeddedMemories(memories) = <<>> THEN "answer" ELSE "search")
  /\ UNCHANGED askVars

\* ask-question: retrieveTopK has returned topResults, they are handed to
\* askWithImagesStreaming
AskRetrieved ==
  /\ handler.op = "ask" /\ handler.at = "search"
  /\ retrieveTopKReturned
  /\ handlerAt("ask", NoDatabase, "answer")
  /\ UNCHANGED askVars

\* ask-question: retrieveTopK has thrown, the catch block replies
AskFailed ==
  /\ handler.op = "ask" /\ handler.at = "search"
  /\ retrieveTopKThrew
  /\ handlerAt("ask", NoDatabase, "error")
  /\ UNCHANGED askVars

\* The store whose records are completed by direct calls, and the questions
\* asked on it.
AskNext ==
  \/ InitializeCreate
  \/ CallAddMemory
  \/ CallsUpdateEmbedding
  \/ SaveTimer
  \/ SaveWritten
  \/ SaveRenamed
  \/ AskQuestion
  \/ AskRetrieved
  \/ AskFailed

AskSpec == Init /\ [][AskNext]_vars

\* The DatabaseManager in one process while time passes.
ClockNext ==
  \/ MgrInitializeCreate
  \/ MgrStoreInitializes
  \/ MgrWriteStarts
  \/ MgrSaves
  \/ MgrCreates
  \/ MgrSwitches
  \/ Tick

ClockSpec == Init /\ [][ClockNext]_vars

\* a screenshot is processed: db = await dbManager.getActiveDatabase(), found
\* in the cache, then db.addMemory(imagePath, description)
CaptureAddsMemory ==
  /\ mgrPc # "new"
  /\ activeDatabase = OwnedDb
  /\ OwnedDb \in DbIdsOf(databases) \cap loadedDatabases
  /\ AddMemory

\* The DatabaseManager and the MemoryDatabase instance of one of its
\* databases in one process, where no file operation of the store fails.
OwnerNext ==
  \/ MgrInitializeCreate
  \/ MgrStoreInitializes
  \/ MgrSaves
  \/ MgrCreates
  \/ MgrDeletes
  \/ MgrUnlinkSucceeds
  \/ CaptureAddsMemory
  \/ SaveTimer
  \/ SaveWritten
  \/ SaveRenamed

OwnerSpec == Init /\ [][OwnerNext]_vars

\* The store called directly, every call observed to the point where it
\* resolves or throws, in one process where no file operation fails.
BurstNext ==
  \/ InitializeCreate
  \/ CallAddMemory
  \/ CallsUpdateEmbedding
  \/ CallsMarkEmbeddingFailed
  \/ CallsMarkEmbeddingProcessing
  \/ SaveTimer
  \/ SaveWritten
  \/ SaveRenamed

BurstSpec == Init /\ [][BurstNext]_vars

\* The store across restarts, with a file that can be damaged from outside.
RestartNext ==
  \/ InitializeLoad
  \/ InitializeCreate
  \/ InitializeThrows
  \/ FileIsDamaged
  \/ CallAddMemory
  \/ CallsMarkEmbeddingFailed
  \/ SaveTimer
  \/ SaveWritten
  \/ SaveRenamed
  \/ SaveFails
  \/ Crash

RestartSpec == Init /\ [][RestartNext]_vars

\* The store whose records are completed by direct calls, and the searches
\* made on it.
SearchNext ==
  \/ InitializeCreate
  \/ CallAddMemory
  \/ CallsUpdateEmbedding
  \/ SaveTimer
  \/ SaveWritten
  \/ SaveRenamed
  \/ RetrieveStart
  \/ RetrieveReturns
  \/ RetrieveThrows

SearchSpec == Init /\ [][SearchNext]_vars

\* ---- properties ----

TypeOK ==
  /\ phase \in {"new", "up", "failed"}
  /\ \A i \in Ids(memories) : memories[i] \in MemoryRecord
  /\ Len(memories) <= MaxRecords
  /\ saveScheduled \in BOOLEAN
  /\ saveScheduled <=> saver # NoOne
  /\ isRunning \in BOOLEAN /\ isProcessing \in BOOLEAN

Status(i) == IF i \in Ids(memories) THEN memories[i].embeddingStatus ELSE "none"
Terminal(i) == Status(i) \in {"completed", "failed"}
SameProcess == Ids(memories) \cap Ids(memories')
IsIncreasing(s) == \A m, n \in DOMAIN s : m < n => s[m] < s[n]
Live(l) == pc[l] # "idle"

\* C1: every record has status completed if and only if its embedding is
\* present, in every reachable state of the store.
StatusCompletedIffEmbedding ==
  \A i \in Ids(memories) :
    Status(i) = "completed" <=> memories[i].embedding # NoEmbedding

\* C2: every record that retrieveTopK returns has status completed and an
\* embedding, as the caller reads it when the call returns.
RetrieveReturnsOnlyCompleted ==
  \A r \in result : r.embeddingStatus = "completed" /\ r.embedding # NoEmbedding

\* C3: records are marked processing, and their processing ends, in the order
\* they were added: when a record is marked, every earlier record has been
\* marked before it, and when its processing ends, no earlier record is still
\* waiting or under way.
Marked(i) == Status(i) # "processing" /\ memories'[i].embeddingStatus = "processing"
Finished(i) == Status(i) = "processing" /\ memories'[i].embeddingStatus # "processing"
UnderWay(i) == \E l \in LoopIds : Live(l) /\ cur[l] = i

FifoOrder ==
  [][\A i \in SameProcess : \A j \in 1..(i - 1) :
       /\ Marked(i) => Status(j) # "pending"
       /\ Finished(i) => (Status(j) # "pending" /\ ~UnderWay(j))]_vars

FifoOrderWitness ==
  /\ Len(memories) >= 2
  /\ \A i \in Ids(memories) : Terminal(i)
  /\ \E l \in LoopIds : Live(l)

\* C4: at most one provider call of the queue is in flight at any time.
InFlight == {l \in LoopIds : pc[l] = "embedding"}

AtMostOneInFlight == Cardinality(InFlight) <= 1

AtMostOneInFlightWitness ==
  /\ Cardinality(InFlight) = 1
  /\ Cardinality({l \in LoopIds : Live(l)}) >= 2
  /\ Len(getPendingMemories(memories)) > 0

\* C5: within one process a record's status only moves pending -> processing
\* -> completed or failed; completed and failed never change again.
LegalTransitions ==
  {<<"pending", "processing">>, <<"processing", "completed">>, <<"processing", "failed">>}

StatusLifecycle ==
  [][\A i \in SameProcess :
       \/ memories'[i].embeddingStatus = Status(i)
       \/ <<Status(i), memories'[i].embeddingStatus>> \in LegalTransitions]_vars

\* C7: when initialize() has loaded the file, no record is in processing.
NoProcessingAfterInitialize ==
  [][(phase = "new" /\ phase' = "up") =>
       \A i \in Ids(memories') : memories'[i].embeddingStatus # "processing"]_vars

\* C6: while the worker is running and every provider call and file operation
\* settles, every pending record eventually becomes completed or failed.
PendingIsEventuallyProcessed ==
  \A i \in 1..MaxRecords :
    (i \in Ids(memories) /\ isRunning /\ Status(i) = "pending")
      ~> (Terminal(i) \/ ~isRunning)

PendingIsEventuallyProcessedWitness ==
  /\ isRunning
  /\ \E i \in Ids(memories) : Status(i) = "completed"
  /\ \E i \in Ids(memories) : Status(i) = "pending"

\* C8: a rejected provider call leaves its record failed, and a failed record
\* stays failed, is not selected again and gets no further provider call.
Selected(i) == \E l \in LoopIds : cur[l] # i /\ cur'[l] = i
Called(i) == \E l \in LoopIds : pc[l] # "embedding" /\ pc'[l] = "embedding" /\ cur'[l] = i

InErrorHandling == \E l \in LoopIds : pc[l] \in {"failSave", "sleep2"}

LoopSurvivesErrors ==
  /\ [][\A l \in LoopIds : (Live(l) /\ pc'[l] = "idle") => ~isRunning]_vars
  /\ \A i \in 1..MaxRecords :
       (i \in Ids(memories) /\ isRunning /\ Status(i) = "pending" /\ InErrorHandling)
         ~> (Status(i) # "pending" \/ ~isRunning)

LoopSurvivesErrorsWitness ==
  /\ isRunning
  /\ \E l \in LoopIds : pc[l] = "sleep2"
  /\ \E i \in Ids(memories) : Status(i) = "pending"

\* C10: stop() does not abort the iteration under way: a record whose
\* processing is under way when the worker is stopped still becomes completed or
\* failed, and no record is marked processing while the worker is stopped.
StopIsCooperative ==
  /\ [][\A i \in SameProcess : Marked(i) => isRunning']_vars
  /\ \A i \in 1..MaxRecords :
       (i \in Ids(memories) /\ ~isRunning /\ Status(i) = "processing")
         ~> Terminal(i)

StopIsCooperativeWitness ==
  /\ ~isRunning
  /\ \E l \in LoopIds : pc[l] = "embedding" /\ Status(cur[l]) = "processing"

\* the call op(id) of this step threw and changed no record
Rejected(op, id) ==
  /\ memories' = memories
  /\ settled'.op = op /\ settled'.id = id
  /\ settled'.outcome \in {"threwNotFound", "threwIllegal"}

\* C11: a call of updateEmbedding, markEmbeddingFailed or markEmbeddingProcessing
\* on a record whose status does not allow the move (any move other than
\* pending -> processing, processing -> completed, processing -> failed)
\* throws and leaves the record unchanged.
IllegalTransitionsFail ==
  [][\A id \in Ids(memories), e \in EmbeddingValues :
       /\ (CallUpdateEmbedding(id, e) /\ <<Status(id), "completed">> \notin LegalTransitions)
            => Rejected("updateEmbedding", id)
       /\ (CallMarkEmbeddingFailed(id) /\ <<Status(id), "failed">> \notin LegalTransitions)
            => Rejected("markEmbeddingFailed", id)
       /\ (CallMarkEmbeddingProcessing(id) /\ <<Status(id), "processing">> \notin LegalTransitions)
            => Rejected("markEmbeddingProcessing", id)]_vars

\* C12: a call of markEmbeddingProcessing, updateEmbedding or markEmbeddingFailed
\* with an id that no record has throws and leaves the store unchanged.
UnknownIdFails ==
  [][\A id \in CallIds \ Ids(memories), e \in EmbeddingValues :
       /\ CallUpdateEmbedding(id, e) => Rejected("updateEmbedding", id)
       /\ CallMarkEmbeddingFailed(id) => Rejected("markEmbeddingFailed", id)
       /\ CallMarkEmbeddingProcessing(id) => Rejected("markEmbeddingProcessing", id)]_vars

\* C13: the step in which addMemory is called, before any flush and before
\* the call resolves, raises getStats().total and getStats().pending by one
\* each, and the new record is the last one, pending with a null embedding.
NewRecordIsCounted ==
  [][CallAddMemory =>
       LET before == getStats(memories)
           after == getStats(memories')
       IN /\ after.total = before.total + 1
          /\ after.pending = before.pending + 1
          /\ after.embedded = before.embedded
          /\ after.processing = before.processing
          /\ after.failed = before.failed
          /\ memories'[after.total] = [embeddingStatus |-> "pending", embedding |-> NoEmbedding]
          /\ disk' = disk
          /\ saveScheduled']_vars

\* addMemory's flush waits for its timer: getStats() counts a pending record
\* that the file does not hold
NewRecordIsCountedWitness ==
  /\ waiter = [op |-> "addMemory", id |-> Len(memories)]
  /\ savePc = "wait"
  /\ disk # Absent
  /\ getStats(memories).total = Len(Content(disk)) + 1
  /\ getStats(memories).pending = getStats(Content(disk)).pending + 1
  /\ memories[Len(memories)].embeddingStatus = "pending"

\* C14: in a process where no file operation fails, whenever no flush is
\* scheduled or being written (so every mutation of the burst has been
\* captured by its flush or by one more), the file equals the in-memory state.
QuiescentFileEqualsMemory ==
  (phase = "up" /\ ~saveScheduled) => (disk # Absent /\ Content(disk) = memories)

\* C15: at most one invocation of save() is past the saveScheduled test at
\* any time, so at most one write (temp file, then rename) is in progress;
\* a mutation that arrives while a flush waits for its debounce timer starts
\* no flush of its own and leaves that one flush waiting.
SingleWriteInProgress ==
  [][/\ flushes' <= 1
     /\ (savePc = "wait" /\ phase' = "up" /\ Len(memories') > Len(memories))
          => (flushes' = flushes /\ savePc' = "wait" /\ writing' = writing /\ tmp' = tmp)]_vars

\* two records were added inside one debounce window: one flush is waiting
\* and the file holds neither
SingleWriteInProgressWitness ==
  /\ flushes = 1 /\ savePc = "wait"
  /\ disk # Absent
  /\ Len(memories) >= Len(Content(disk)) + 2

\* C16: the file at dbPath changes only when a rename of a completely written
\* temp file completes, and then to the state that flush wrote; a crash leaves
\* it alone, and initialize() on an existing file loads exactly its content.
\* So after a crash at any point of a save, initialize() loads the state of
\* the last flush that completed its rename.
CrashLoadsLastRenamedState ==
  [][/\ disk' # disk => (savePc = "rename" /\ tmp = "complete" /\ disk' = File(writing))
     /\ (phase = "new" /\ phase' = "up" /\ disk # Absent)
          => (memories' = Content(disk) /\ disk' = disk)]_vars

\* a process was killed during a save (its temp file is left behind, and a
\* record it had added is gone) and initialize() has loaded the file
CrashLoadsLastRenamedStateWitness ==
  /\ phase = "up" /\ ~saveScheduled
  /\ tmp # "absent"
  /\ disk # Absent /\ memories = Content(disk)
  /\ settled.op = "addMemory" /\ settled.id > Len(memories)

\* C17: when a file operation of a flush fails, the call whose save() runs
\* that flush (the mutation that scheduled it) throws the error, the file at
\* dbPath is as it was, and the flag is released, so that the save() of a
\* later mutation schedules a new flush.
FlushFailureIsRaised ==
  [][(SaveFails /\ saver = "api")
       => /\ settled' = [op |-> waiter.op, id |-> waiter.id, outcome |-> "threwIO"]
          /\ disk' = disk
          /\ ~saveScheduled' /\ flushes' = 0]_vars

\* a flush failed and its caller got the error; a later mutation has
\* scheduled a new flush, and the file still holds the older state
FlushFailureIsRaisedWitness ==
  /\ settled.outcome = "threwIO"
  /\ saveScheduled /\ saver = "api" /\ savePc = "wait"
  /\ waiter.op \in {"addMemory", "markEmbeddingFailed"}
  /\ disk # Absent /\ Content(disk) # memories

\* C18: initialize() that finds no file ends with the empty store written to
\* dbPath; initialize() that finds a file it cannot read or parse throws,
\* leaves that file as it is and never writes an empty store over it.
InitializeCreatesOnlyWhenAbsent ==
  [][/\ (phase = "new" /\ phase' = "up" /\ disk = Absent)
          => (memories' = <<>> /\ disk' = File(<<>>))
     /\ (phase = "new" /\ disk # Absent /\ ~readable)
          => (disk' = disk /\ readable' = readable /\ phase' \in {"new", "failed"})]_vars

\* initialize() has thrown on a damaged file that holds records
InitializeCreatesOnlyWhenAbsentWitness ==
  /\ phase = "failed"
  /\ ~readable
  /\ disk # Absent /\ Len(Content(disk)) >= 1
  /\ memories = <<>>

\* C19: once an addMemory call has resolved, the record it added is in the
\* file at dbPath.
AcknowledgedIsOnDisk ==
  (settled.op = "addMemory" /\ settled.outcome = "resolved")
    => (disk # Absent /\ settled.id \in Ids(Content(disk)))

\* C20: whenever DatabaseManager.initialize() has completed and no operation
\* is under way, activeDatabase is the id of an entry of the registry.
ActiveIsRegistered ==
  mgrPc = "idle" => activeDatabase \in DbIdsOf(databases)

\* C21: whenever DatabaseManager.initialize() has completed and no operation
\* is under way, the registry holds at least one entry.
RegistryIsNonEmpty ==
  mgrPc = "idle" => databases # <<>>

\* C22: deleteDatabase(id) on the only store of the registry returns false
\* and changes neither the entries, nor activeDatabase, nor the cache of
\* loaded stores, nor any store file, nor the registry file.
LastStoreIsNotDeleted ==
  [][\A id \in DbIds :
       (MgrDelete(id) /\ DbIdsOf(databases) = {id})
         => /\ mgrReturned' = [op |-> "deleteDatabase", id |-> id, result |-> "false"]
            /\ mgrPc' = "idle"
            /\ UNCHANGED <<databases, activeDatabase, loadedDatabases, storeFiles, disk,
                           registry, registryWhole>>]_vars

\* deleteDatabase of the only store, which is loaded and has its file, has
\* returned false
LastStoreIsNotDeletedWitness ==
  /\ mgrReturned.op = "deleteDatabase" /\ mgrReturned.result = "false"
  /\ DbIdsOf(databases) = {mgrReturned.id}
  /\ activeDatabase = mgrReturned.id
  /\ mgrReturned.id \in loadedDatabases
  /\ storeFileExists(mgrReturned.id)

\* C23: deleteDatabase(id) that goes on to delete removes exactly the entry
\* id and keeps the others in order; activeDatabase is unchanged when id was
\* not the active store, and is one of the remaining entries when it was;
\* neither changes again until the call returns.
DeleteRemovesExactlyOne ==
  [][/\ \A id \in DbIds :
          (MgrDelete(id) /\ mgrPc' = "deleteUnlink")
            => /\ databases' = SelectSeq(databases, LAMBDA d : d.id # id)
               /\ Len(databases') = Len(databases) - 1
               /\ activeDatabase # id => activeDatabase' = activeDatabase
               /\ activeDatabase = id => activeDatabase' \in DbIdsOf(databases')
     /\ (mgrPc \in {"deleteUnlink", "deleteSave"} /\ mgrPc' # "new")
          => UNCHANGED <<databases, activeDatabase>>]_vars

\* deleteDatabase of a store that was not the active one is about to write
\* the registry: the active store is the one the registry file names
DeleteRemovesExactlyOneWitness ==
  /\ mgrPc = "deleteSave"
  /\ registry # Absent /\ registryWhole
  /\ mgrArg \in DbIdsOf(Content(registry).databases)
  /\ mgrArg \notin DbIdsOf(databases)
  /\ Content(registry).activeDatabase = activeDatabase
  /\ activeDatabase \in DbIdsOf(databases) /\ activeDatabase # mgrArg

\* C24: once deleteDatabase(id) has returned true, the backing file of the
\* store id does not exist (the id is never given to another store).
DeletedFileStaysDeleted ==
  mgrReturned = [op |-> "deleteDatabase", id |-> OwnedDb, result |-> "true"]
    => disk = Absent

\* C25: switchDatabase(id) with an id that no entry has returns false and
\* changes neither activeDatabase nor any entry nor the registry file; with
\* the id of an entry it sets activeDatabase to id and lastAccessedAt of that
\* entry alone to the present time, and when it returns true the registry
\* file holds exactly that state.
SwitchSetsActive ==
  [][/\ \A id \in DbIds :
          /\ (MgrSwitch(id) /\ id \notin DbIdsOf(databases))
               => /\ mgrReturned' = [op |-> "switchDatabase", id |-> id, result |-> "false"]
                  /\ UNCHANGED <<activeDatabase, databases, registry, registryWhole>>
          /\ (MgrSwitch(id) /\ id \in DbIdsOf(databases))
               => /\ activeDatabase' = id
                  /\ Len(databases') = Len(databases)
                  /\ \A i \in DOMAIN databases :
                        IF databases[i].id = id
                        THEN databases'[i] = [databases[i] EXCEPT !.lastAccessedAt = now]
                        ELSE databases'[i] = databases[i]
     /\ (mgrPc = "switchSave" /\ mgrPc' = "idle" /\ mgrReturned'.result = "true")
          => /\ mgrReturned' = [op |-> "switchDatabase", id |-> activeDatabase, result |-> "true"]
             /\ UNCHANGED <<activeDatabase, databases>>
             /\ registryWhole' /\ registry' = File(ManagerState)]_vars

\* switchDatabase has returned true: the registry file names the store as
\* active, with a later lastAccessedAt than the other entry
SwitchSetsActiveWitness ==
  /\ mgrReturned.op = "switchDatabase" /\ mgrReturned.result = "true"
  /\ activeDatabase = mgrReturned.id
  /\ registryWhole /\ registry = File(ManagerState)
  /\ \E i, j \in DOMAIN databases :
        /\ databases[i].id = activeDatabase
        /\ databases[j].lastAccessedAt < databases[i].lastAccessedAt

\* C26: createDatabase(name) appends exactly one entry, whose id no entry and
\* no store file had; when db.initialize() of the new store has resolved the
\* store file exists and is empty, and activeDatabase is the new id if it was
\* null and is unchanged otherwise; when createDatabase returns, the registry
\* file holds the new state.
CreateAddsOneEntry ==
  [][/\ \A name \in Names :
          MgrCreate(name)
            => /\ mgrArg' \notin DbIdsOf(databases)
               /\ ~storeFileExists(mgrArg')
               /\ databases' = Append(databases, [id |-> mgrArg', name |-> name,
                                                  lastAccessedAt |-> now])
               /\ UNCHANGED <<activeDatabase, registry>>
     /\ (mgrPc \in {"initializeCreate", "createInitialize"}
           /\ mgrPc' \in {"initializeCreateSave", "createSave"})
          => /\ storeFileExists(mgrArg)'
             /\ mgrArg = OwnedDb => (memories' = <<>> /\ disk' = File(<<>>))
             /\ mgrArg \in loadedDatabases'
             /\ activeDatabase' = IF activeDatabase = NoDatabase THEN mgrArg ELSE activeDatabase
             /\ UNCHANGED databases
     /\ (mgrPc = "createSave" /\ mgrPc' = "idle" /\ mgrReturned'.result = "true")
          => /\ mgrReturned' = [op |-> "createDatabase", id |-> mgrArg, result |-> "true"]
             /\ mgrArg \in DbIdsOf(databases)
             /\ UNCHANGED <<activeDatabase, databases>>
             /\ registryWhole' /\ registry' = File(ManagerState)]_vars

\* createDatabase has returned the id of a second store, which is registered,
\* on file and not active
CreateAddsOneEntryWitness ==
  /\ mgrReturned.op = "createDatabase" /\ mgrReturned.result = "true"
  /\ mgrReturned.id \in DbIdsOf(databases)
  /\ storeFileExists(mgrReturned.id)
  /\ activeDatabase \in DbIdsOf(databases) \ {mgrReturned.id}
  /\ registryWhole /\ registry = File(ManagerState)

\* C28: a process killed during a save of the registry leaves databases.json
\* either as it was or with the whole new text, so that a DatabaseManager
\* about to run initialize() finds no file or a complete one.
RegistrySurvivesCrash == mgrPc = "new" => (registry = Absent \/ registryWhole)

\* C27: at any time at most one MemoryDatabase instance is in use for the
\* backing file of a database, so that every getDatabase(id) and
\* getActiveDatabase() call gets that one instance, overlapping calls included.
OneInstancePerFile == \A id \in DbIds : constructed[id] <= 1

RankScore(i) == candidates[i].similarity - (now - candidates[i].time)
Returned == {topK[n].memory : n \in DOMAIN topK}

TiesGoToTheRecent ==
  kArg # 0 =>
    /\ \A m, n \in DOMAIN topK :
         (m < n /\ RankScore(topK[m].memory) = RankScore(topK[n].memory))
           => candidates[topK[m].memory].time >= candidates[topK[n].memory].time
    /\ \A i \in DOMAIN candidates \ Returned :
         \A n \in DOMAIN topK :
           RankScore(i) = RankScore(topK[n].memory)
             => candidates[i].time <= candidates[topK[n].memory].time

\* C32: when the query embedding and the embedding of a candidate differ in
\* length, retrieveTopK throws and returns no result; it returns
\* similarities only when every candidate has the length of the query.
MismatchThrows ==
  vectors.called =>
    /\ vectors.threw <=> \E i \in DOMAIN vectors.embeddings :
                           Len(vectors.embeddings[i]) # Len(vectors.queryEmbedding)
    /\ vectors.threw => vectors.similarities = <<>>
    /\ ~vectors.threw => Len(vectors.similarities) = Len(vectors.embeddings)

\* retrieveTopK has thrown on a store whose first candidate has the length
\* of the query and whose second is shorter
MismatchThrowsWitness ==
  /\ vectors.called /\ vectors.threw
  /\ Len(vectors.embeddings) = 2
  /\ Len(vectors.queryEmbedding) = 2
  /\ Len(vectors.embeddings[1]) = 2
  /\ Len(vectors.embeddings[2]) = 1

\* C33: cosineSimilarity returns 0, and does not throw, for two vectors of
\* one length of which one has only zero components or which are both empty.
IsZero(v) == \A i \in DOMAIN v : v[i] = 0

ZeroNormGivesZero ==
  (vectors.called /\ ~vectors.threw) =>
    \A i \in DOMAIN vectors.embeddings :
      (IsZero(vectors.queryEmbedding) \/ IsZero(vectors.embeddings[i]))
        => vectors.similarities[i] = [threw |-> FALSE, dotProduct |-> 0, norms |-> 1]

\* 0 was returned for a query that is not zero with a zero vector, next to a
\* similarity that is not 0
ZeroNormGivesZeroWitness ==
  /\ vectors.called /\ ~vectors.threw
  /\ \E i, j \in DOMAIN vectors.embeddings :
       /\ IsZero(vectors.embeddings[i]) /\ ~IsZero(vectors.queryEmbedding)
       /\ Len(vectors.queryEmbedding) = 2
       /\ vectors.similarities[i].dotProduct = 0
       /\ ~IsZero(vectors.embeddings[j])
       /\ vectors.similarities[j].dotProduct # 0

\* C34: when the switch-database handler has switched to a database, the
\* EmbeddingQueue of that database has been started, also when the handler
\* loaded the database.
SwitchedQueueIsRunning ==
  (handler.op = "switch" /\ handler.at = "done")
    => embeddingQueues[handler.id] = "running"

\* C35: a question asked while the store holds records of which none is
\* completed is not handed to the answering step: whenever
\* askWithImagesStreaming has been called by the ask-question handler, the
\* result list it was given is not empty.
AnswerHasResults ==
  (handler.op = "ask" /\ handler.at = "answer") => result # {}

\* C36: an EmbeddingQueue never has more than one processLoop() invocation
\* that has not returned, also when stop() is followed by start() while the
\* invocation started before sleeps or awaits the provider.
LiveLoops == {l \in LoopIds : Live(l)}

AtMostOneLiveLoop == Cardinality(LiveLoops) <= 1

\* C37: a record's status becomes failed only in a step in which the
\* provider call made for that record rejects; a save() that fails in
\* markEmbeddingProcessing or in updateEmbedding does not make it failed.
FailedOnlyWhenProviderRaised ==
  [][\A i \in SameProcess :
       (Status(i) # "failed" /\ memories'[i].embeddingStatus = "failed")
         => \E l \in LoopIds : pc[l] = "embedding" /\ cur[l] = i]_vars

\* C38: in the store served by the queue at most one record has status
\* processing at any time, across iterations of the loop, stop() and start(),
\* crashes and restarts.
Processing == {i \in Ids(memories) : Status(i) = "processing"}

AtMostOneProcessing == Cardinality(Processing) <= 1

\* C39: when createDatabase(name) has failed, because the store could not be
\* initialized or the registry could not be written, the registry in memory
\* is as before the call: the entry made for the new database is not listed
\* and the new database is not the active one.
FailedCreateLeavesRegistry ==
  (mgrPc = "idle" /\ mgrReturned.op = "createDatabase" /\ mgrReturned.result = "threw")
    => (mgrReturned.id \notin DbIdsOf(databases) /\ activeDatabase # mgrReturned.id)

\* C40: when DatabaseManager.initialize() returns, the registry on disk is
\* the registry in memory, also when initialize() has removed entries.
InitializeLeavesRegistrySaved ==
  [][(mgrPc # "idle" /\ mgrPc' = "idle" /\ mgrReturned'.op = "initialize"
        /\ mgrReturned'.result = "true")
       => (registryWhole'
             /\ registry' = File([databases |-> databases',
                                  activeDatabase |-> activeDatabase']))]_vars

====
